---- MODULE Spec2Model ----
(***************************************************************************)
(* A model of budget_buddy (src/app.py, src/helpers.py): a Flask finance   *)
(* tracker over two SQLite tables, users and transactions.                 *)
(*                                                                         *)
(* Conventions of the model                                                *)
(*   - a TEXT value is a TLA+ string; a date is a sequence of one-character*)
(*     strings, so that splitting and ordering are computed, not assumed;  *)
(*   - an amount is an integer number of currency units.  SQLite stores    *)
(*     amounts as REAL; sums of small whole amounts are exact in binary64, *)
(*     and the one place where rounding of a quotient matters              *)
(*     (calculate_financial_health) is modelled explicitly;                *)
(*   - Python's None and SQL's NULL are the value None below;              *)
(*   - a table is the sequence of its rows in rowid order.                 *)
(***************************************************************************)
EXTENDS Integers, Sequences, FiniteSets

(***************************************************************************)
(* Bounds of the model.                                                    *)
(***************************************************************************)
\* capacity of the users table explored (ids are 1..MaxUsers)
MaxUsers == 2
\* capacity of the transactions table explored by the request model
MaxTxns == 2
\* number of rows of the stored tables the read-only routes are applied to
MaxRows == 3
\* largest total handed to calculate_financial_health
MaxTotal == 150

(***************************************************************************)
(* Values.                                                                 *)
(***************************************************************************)
None == "None"

\* the two type values the application's forms and queries use
StoredTypes == {"income", "expenses"}
\* what a client can submit as type: the form is not validated, so also the
\* singular "expense" (the value helpers.py compares against) and no value
FormTypes == StoredTypes \cup {"expense", None}

Categories == {"food", "rent"}

\* amounts a client can submit: the form is not validated
FormAmounts == {-5, 5}

Usernames == {"ann", "bob"}

\* "2024-01-01" and "2024-01-02"
Date1 == <<"2", "0", "2", "4", "-", "0", "1", "-", "0", "1">>
Date2 == <<"2", "0", "2", "4", "-", "0", "1", "-", "0", "2">>

VARIABLES
  users,         \* the users table: a set of [id, username]
  nextUserId,    \* AUTOINCREMENT of users.id
  transactions,  \* the transactions table: a sequence of rows in rowid order
  nextTxnId,     \* AUTOINCREMENT of transactions.id
  req,           \* the requests in flight, one per server thread
  resp           \* the response of the last request that completed

vars == <<users, nextUserId, transactions, nextTxnId, req, resp>>

(***************************************************************************)
(* Sequences.                                                              *)
(***************************************************************************)
Range(s) == {s[i] : i \in DOMAIN s}

RECURSIVE SumSeq(_)
SumSeq(s) == IF s = <<>> THEN 0 ELSE Head(s) + SumSeq(Tail(s))

Amounts(s) == [i \in DOMAIN s |-> s[i].amount]

(***************************************************************************)
(* helpers.py: calculate_financial_health.                                 *)
(***************************************************************************)
\* The pairs <<total_income, total_expenses>> of whole numbers up to 160 for
\* which the binary64 value of (total_expenses / total_income) * 100 lies just
\* below the whole number 100 * total_expenses / total_income, so that int()
\* yields one less than the exact quotient.  For every other pair up to 160
\* int() of the binary64 product equals the floor of the exact quotient.
BinaryShort ==
  {<<5, 23>>, <<5, 41>>, <<5, 46>>, <<5, 51>>, <<5, 82>>, <<5, 87>>,
   <<5, 92>>, <<5, 97>>, <<5, 102>>, <<10, 23>>, <<10, 41>>, <<10, 46>>,
   <<10, 51>>, <<10, 82>>, <<10, 87>>, <<10, 92>>, <<10, 97>>, <<10, 102>>,
   <<15, 69>>, <<15, 123>>, <<15, 138>>, <<15, 153>>, <<20, 23>>,
   <<20, 41>>, <<20, 46>>, <<20, 51>>, <<20, 82>>, <<20, 87>>, <<20, 92>>,
   <<20, 97>>, <<20, 102>>, <<25, 29>>, <<25, 57>>, <<25, 58>>, <<25, 113>>,
   <<25, 114>>, <<25, 115>>, <<25, 116>>, <<30, 69>>, <<30, 123>>,
   <<30, 138>>, <<30, 153>>, <<40, 46>>, <<40, 82>>, <<40, 92>>,
   <<40, 102>>, <<50, 29>>, <<50, 57>>, <<50, 58>>, <<50, 113>>,
   <<50, 114>>, <<50, 115>>, <<50, 116>>, <<60, 69>>, <<60, 123>>,
   <<60, 138>>, <<60, 153>>, <<75, 87>>, <<80, 92>>, <<100, 29>>,
   <<100, 57>>, <<100, 58>>, <<100, 113>>, <<100, 114>>, <<100, 115>>,
   <<100, 116>>, <<120, 138>>, <<125, 145>>, <<150, 87>>}

\* round(expense_ratio * 100): what calculate_financial_health would compute
\* if it rounded (to the nearest whole number, halves to the even one)
IntRounded(total_income, total_expenses) ==
  LET n == 100 * total_expenses
      q == n \div total_income
      r == n % total_income
  IN IF 2 * r > total_income \/ (2 * r = total_income /\ q % 2 = 1)
     THEN q + 1 ELSE q

\* int(expense_ratio * 100) with expense_ratio = total_expenses / total_income,
\* for whole totals, total_income > 0: int() truncates the binary64 product
IntOfRatioTimes100(total_income, total_expenses) ==
  LET q == (100 * total_expenses) \div total_income
  IN IF <<total_income, total_expenses>> \in BinaryShort THEN q - 1 ELSE q

\* the second argument, whatever the first
Second(a, b) == b

Max(a, b) == IF a >= b THEN a ELSE b

\* the result is <<>> for None and <<n>> for the integer n
calculate_financial_health(total_income, total_expenses) ==
  IF total_income = 0 /\ total_expenses = 0 THEN <<>>
  ELSE IF total_income = 0 THEN <<0>>
  ELSE <<Max(0, 100 - IntOfRatioTimes100(total_income, total_expenses))>>

(***************************************************************************)
(* The state after construction: init_db has created two empty tables, no  *)
(* request is in flight and none has been answered.                        *)
(***************************************************************************)
\* the server threads that handle requests concurrently
Slots == {1, 2}

Idle == [op |-> "idle"]

NoResp == [op |-> "none"]

Init ==
  /\ users = {}
  /\ nextUserId = 1
  /\ transactions = <<>>
  /\ nextTxnId = 1
  /\ req = [s \in Slots |-> Idle]
  /\ resp = NoResp

(***************************************************************************)
(* SpecHealth: calculate_financial_health applied to every pair of totals  *)
(* in 0..MaxTotal.                                                         *)
(***************************************************************************)
CalculateHealth(total_income, total_expenses) ==
  /\ resp = NoResp
  /\ resp' = [op |-> "calculate_financial_health",
              total_income |-> total_income,
              total_expenses |-> total_expenses,
              score |-> calculate_financial_health(total_income, total_expenses)]
  /\ UNCHANGED <<users, nextUserId, transactions, nextTxnId, req>>

NextHealth ==
  /\ resp = NoResp
  /\ \E total_income \in 0..MaxTotal, total_expenses \in 0..MaxTotal :
       CalculateHealth(total_income, total_expenses)

SpecHealth == Init /\ [][NextHealth]_vars

HealthCalled == resp.op = "calculate_financial_health"

\* C2 (as amended): calculate_financial_health returns None when both totals
\* are zero, 0 when income is zero and expenses are not, and otherwise
\* max(0, 100 - k) where k is the percentage 100 * expenses / income truncated
\* to a whole number, not rounded: k * income <= 100 * expenses <
\* (k + 1) * income, except for the pairs of BinaryShort, whose exact whole
\* percentage the binary64 product falls short of, so that k is one less.
\* health(100,0) = 100, health(100,50) = 50, health(100,150) = 0.
C2_HealthTruncates ==
  HealthCalled =>
    LET i == resp.total_income
        e == resp.total_expenses
        s == resp.score
    IN /\ (i = 0 /\ e = 0) => s = <<>>
       /\ (i = 0 /\ e > 0) => s = <<0>>
       /\ i > 0 =>
            /\ Len(s) = 1
            /\ s[1] \in 0..100
            /\ s[1] = 0 <=> e >= i
            /\ s[1] > 0 =>
                 LET k == 100 - s[1]
                 IN IF <<i, e>> \in BinaryShort
                    THEN (k + 1) * i = 100 * e
                    ELSE k * i <= 100 * e /\ 100 * e < (k + 1) * i
       /\ (i = 100 /\ e = 0) => s = <<100>>
       /\ (i = 100 /\ e = 50) => s = <<50>>
       /\ (i = 100 /\ e = 150) => s = <<0>>

\* C2, witness: a ratio that is not a whole percentage has been scored
C2_Witness ==
  /\ HealthCalled
  /\ resp.total_income = 3
  /\ resp.total_expenses = 2
  /\ resp.score = <<34>>

\* C2 (as stated): otherwise the score is max(0, 100 - round(100 * expenses /
\* income))
C2_HealthRounds ==
  (HealthCalled /\ resp.total_income > 0) =>
    resp.score =
      <<Max(0, 100 - IntRounded(resp.total_income, resp.total_expenses))>>

\* C17 (as stated): for income > 0 the score does not increase with the
\* expenses, is a whole number in 0..100, is 100 exactly when the ratio of
\* expenses to income is 0, and is 0 for every ratio of 1 or more
C17_HundredOnlyAtRatioZero ==
  (HealthCalled /\ resp.total_income > 0) =>
    LET i == resp.total_income
        e == resp.total_expenses
        s == resp.score
    IN /\ Len(s) = 1
       /\ s[1] \in 0..100
       /\ \A less \in 0..e : calculate_financial_health(i, less)[1] >= s[1]
       /\ s[1] = 100 <=> e = 0
       /\ e >= i => s[1] = 0

\* C17 (as amended): for income > 0 and expenses >= 0 the score does not
\* increase with the expenses, is a whole number in 0..100, is 100 exactly
\* when the ratio of expenses to income is below 1/100 (the percentage
\* truncates to 0), and is 0 for every ratio of 1 or more
C17_HundredBelowOnePercent ==
  (HealthCalled /\ resp.total_income > 0) =>
    LET i == resp.total_income
        e == resp.total_expenses
        s == resp.score
    IN /\ Len(s) = 1
       /\ s[1] \in 0..100
       /\ \A less \in 0..e : calculate_financial_health(i, less)[1] >= s[1]
       /\ s[1] = 100 <=> 100 * e < i
       /\ e >= i => s[1] = 0

\* C17, witness: a score of 100 for expenses that are not zero
C17_Witness ==
  /\ HealthCalled
  /\ resp.total_income = 150
  /\ resp.total_expenses = 1
  /\ resp.score = <<100>>

(***************************************************************************)
(* Text: ordering and splitting of dates.                                  *)
(***************************************************************************)
\* the characters of the model's dates, in code-point order
Chars ==
  <<"\t", " ", "-", "0", "1", "2", "3", "4", "5", "6", "7", "8", "9", ":">>

Rank(c) == CHOOSE i \in DOMAIN Chars : Chars[i] = c

RECURSIVE TextLess(_, _)
\* a < b for two TEXT values (SQLite's BINARY collation, Python's str order)
TextLess(a, b) ==
  IF b = <<>> THEN FALSE
  ELSE IF a = <<>> THEN TRUE
  ELSE IF Head(a) = Head(b) THEN TextLess(Tail(a), Tail(b))
  ELSE Rank(Head(a)) < Rank(Head(b))

\* the characters Python's str.isspace holds for, of those in Chars
Whitespace == {" ", "\t"}

\* the characters before the first whitespace character
SplitAtWhitespace(text) ==
  IF \E i \in DOMAIN text : text[i] \in Whitespace
  THEN LET k == CHOOSE i \in DOMAIN text :
                  /\ text[i] \in Whitespace
                  /\ \A j \in 1..(i - 1) : text[j] \notin Whitespace
       IN SubSeq(text, 1, k - 1)
  ELSE text

\* the characters after the first space
SplitRest(text) ==
  IF \E i \in DOMAIN text : text[i] = " "
  THEN LET k == CHOOSE i \in DOMAIN text :
                  /\ text[i] = " "
                  /\ \A j \in 1..(i - 1) : text[j] # " "
       IN SubSeq(text, k + 1, Len(text))
  ELSE text

\* text.split(" ")[0]: the characters before the first space
SplitFirst(text) ==
  IF \E i \in DOMAIN text : text[i] = " "
  THEN LET k == CHOOSE i \in DOMAIN text :
                  /\ text[i] = " "
                  /\ \A j \in 1..(i - 1) : text[j] # " "
       IN SubSeq(text, 1, k - 1)
  ELSE text

(***************************************************************************)
(* SQL over the transactions table.                                        *)
(***************************************************************************)
\* SELECT ... FROM transactions, without a WHERE clause
RowsOfAnyUser(user_id) == transactions

\* SELECT ... FROM transactions WHERE user_id = ?
RowsOfUser(user_id) ==
  SelectSeq(transactions, LAMBDA row : row.user_id = user_id)

\* ... WHERE user_id = ? AND type = ?
RowsOfType(user_id, type) ==
  SelectSeq(RowsOfUser(user_id), LAMBDA row : row.type = type)

\* SELECT SUM(amount) ... WHERE user_id = ? AND type = ?, then "or 0":
\* SUM over no rows is NULL, which "or 0" turns into 0
TotalOfType(user_id, type) == SumSeq(Amounts(RowsOfType(user_id, type)))

Permutations(n) ==
  {p \in [1..n -> 1..n] : \A i, j \in 1..n : p[i] = p[j] => i = j}

\* ORDER BY date DESC: every order of the rows in which dates do not increase
\* (SQL leaves the order of rows with equal dates open)
OrderByDateDesc(rows) ==
  LET n == Len(rows)
      Pick(p) == [i \in 1..n |-> rows[p[i]]]
  IN {Pick(p) : p \in {q \in Permutations(n) :
        \A i \in 1..(n - 1) :
          ~TextLess(rows[q[i]].date, rows[q[i + 1]].date)}}

\* LIMIT n
Limit(rows, n) == IF Len(rows) <= n THEN rows ELSE SubSeq(rows, 1, n)

\* the categories of a sequence of rows
CategoriesOf(rows) == {rows[i].category : i \in DOMAIN rows}

\* SELECT category, SUM(amount) ... WHERE user_id = ? AND type = 'expenses'
\* GROUP BY category: a function from the categories to their totals
ExpensesByCategory(user_id) ==
  LET rows == RowsOfType(user_id, "expenses")
  IN [c \in CategoriesOf(rows) |->
        SumSeq(Amounts(SelectSeq(rows, LAMBDA row : row.category = c)))]

(***************************************************************************)
(* helpers.py: the functions the routes call.                              *)
(***************************************************************************)
get_transaction_summary(user_id) ==
  LET total_income == TotalOfType(user_id, "income")
      total_expenses == TotalOfType(user_id, "expenses")
  IN [total_income |-> total_income,
      total_expenses |-> total_expenses,
      balance |-> total_income - total_expenses]

\* dict(txn) for each row, with date cut at its first space
format_transactions(txns) ==
  [i \in DOMAIN txns |-> [txns[i] EXCEPT !.date = SplitFirst(@)]]

\* the columns get_transaction_data selects (description is not modelled)
ReportColumns(row) ==
  [date |-> row.date, amount |-> row.amount, type |-> row.type,
   category |-> row.category]

\* the lists get_transaction_data can return for a user
get_transaction_data(user_id) ==
  {[i \in DOMAIN rows |-> ReportColumns(rows[i])] :
     rows \in OrderByDateDesc(RowsOfUser(user_id))}

\* the type value get_category_summary compares against
SummaryExpenseType == "expense"

RECURSIVE AddToSummary(_, _)
\* the loop of get_category_summary: the dict it builds, as the sequence of
\* its items in insertion order
AddToSummary(txns, summary) ==
  IF txns = <<>> THEN summary
  ELSE LET txn == Head(txns)
           known == \E i \in DOMAIN summary : summary[i].category = txn.category
       IN IF txn.type = SummaryExpenseType
          THEN AddToSummary(Tail(txns),
                 IF known
                 THEN [i \in DOMAIN summary |->
                         IF summary[i].category = txn.category
                         THEN [summary[i] EXCEPT !.amount = @ + txn.amount]
                         ELSE summary[i]]
                 ELSE Append(summary, [category |-> txn.category,
                                       amount |-> txn.amount]))
          ELSE AddToSummary(Tail(txns), summary)

\* item placed before the items of a descending sequence that are equal to it
InsertDescendingBeforeEqual(items, item) ==
  LET k == Cardinality({i \in DOMAIN items : items[i].amount > item.amount})
  IN SubSeq(items, 1, k) \o <<item>> \o SubSeq(items, k + 1, Len(items))

\* item placed after every item of a descending sequence that is not smaller
InsertDescending(items, item) ==
  LET k == Cardinality({i \in DOMAIN items : items[i].amount >= item.amount})
  IN SubSeq(items, 1, k) \o <<item>> \o SubSeq(items, k + 1, Len(items))

RECURSIVE SortDescending(_)
\* sorted(items, key=amount, reverse=True): stable, equal amounts keep
\* their order
SortDescending(items) ==
  IF items = <<>> THEN <<>>
  ELSE InsertDescending(SortDescending(SubSeq(items, 1, Len(items) - 1)),
                        items[Len(items)])

\* the dict get_category_summary returns, as the sequence of its items
get_category_summary(txns) == SortDescending(AddToSummary(txns, <<>>))

(***************************************************************************)
(* helpers.py: build_transaction_pdf.  The document is the list of         *)
(* flowables handed to pdf.build; a formatted number is the number with    *)
(* its format; the clock's readings are the texts "today" and "now".       *)
(***************************************************************************)
Paragraph(text) == [kind |-> "Paragraph", text |-> text]

Spacer(height) == [kind |-> "Spacer", height |-> height]

Table(data) == [kind |-> "Table", data |-> data]

\* f"${x:,.2f}"
Money(x) == [format |-> "$,.2f", value |-> x]

\* f"{num / den:.1f}%"
Percent(num, den) == [format |-> ".1f%", num |-> num, den |-> den]

HeaderSection ==
  <<Paragraph("Financial Report - today"), Spacer(12)>>

SummarySection(total_income, total_expenses, balance) ==
  <<Paragraph("Financial Summary"),
    Table(<<<<"Metric", "Amount">>,
            <<"Total Income", Money(total_income)>>,
            <<"Total Expenses", Money(total_expenses)>>,
            <<"Net Balance", Money(balance)>>>>),
    Spacer(20)>>

BreakdownSection(category_summary) ==
  LET total_expenses_calc ==
        SumSeq([i \in DOMAIN category_summary |-> category_summary[i].amount])
      Line(item) ==
        <<item.category, Money(item.amount),
          IF total_expenses_calc > 0
          THEN Percent(item.amount * 100, total_expenses_calc)
          ELSE Percent(0, 1)>>
  IN IF category_summary = <<>> THEN <<>>
     ELSE <<Paragraph("Expense Breakdown by Category"),
            Table(<<<<"Category", "Amount", "Percentage">>>> \o
                  [i \in DOMAIN category_summary |-> Line(category_summary[i])]),
            Spacer(20)>>

TransactionsSection(txns) ==
  LET Line(txn) == <<txn.date, txn.category, txn.type, Money(txn.amount)>>
  IN <<Paragraph("Transaction Details"),
       IF txns # <<>>
       THEN Table(<<<<"Date", "Category", "Type", "Amount">>>> \o
                  [i \in DOMAIN txns |-> Line(txns[i])])
       ELSE Paragraph("No transactions available."),
       Spacer(30)>>

FooterSection ==
  <<Paragraph("Generated by BudgetBuddy Financial Tracker"), Paragraph("now")>>

\* written: whether pdf.build writes the file or raises (the file system's
\* answer); the result is what the function returns and what the file holds
build_transaction_pdf(txns, total_income, total_expenses, balance, written) ==
  LET elements ==
        HeaderSection
        \o SummarySection(total_income, total_expenses, balance)
        \o BreakdownSection(get_category_summary(txns))
        \o TransactionsSection(txns)
        \o FooterSection
  IN IF written THEN [returned |-> TRUE, file |-> elements]
     ELSE [returned |-> FALSE, file |-> <<>>]

(***************************************************************************)
(* app.py: the read-only routes, each applied to the stored table on       *)
(* behalf of a logged-in user.  A behaviour of these specifications starts *)
(* from a stored table and observes one response.                          *)
(***************************************************************************)
\* LIMIT of the dashboard's recent transactions
DashboardLimit == 5

\* ROUND(AVG(amount), 2) over a sequence of amounts, in hundredths, then
\* "or 0": SQLite rounds halves away from zero; AVG over no rows is NULL
RoundedAverage(amounts) ==
  IF amounts = <<>> THEN 0
  ELSE LET n == 100 * SumSeq(amounts)
           d == Len(amounts)
           a == IF n >= 0 THEN n ELSE -n
           q == (2 * a + d) \div (2 * d)
       IN IF n >= 0 THEN q ELSE -q

\* every order in which the items of a finite set can be listed
Orderings(S) ==
  {seq \in [1..Cardinality(S) -> S] :
     \A i, j \in DOMAIN seq : seq[i] = seq[j] => i = j}

RECURSIVE SortedTexts(_)
\* sorted(S) for a set of TEXT values
SortedTexts(S) ==
  IF S = {} THEN <<>>
  ELSE LET least == CHOOSE a \in S : \A b \in S : ~TextLess(b, a)
       IN <<least>> \o SortedTexts(S \ {least})

Dashboard(user_id) ==
  /\ resp = NoResp
  /\ \E ordered \in OrderByDateDesc(RowsOfUser(user_id)) :
       LET total_income == TotalOfType(user_id, "income")
           total_expenses == TotalOfType(user_id, "expenses")
       IN resp' = [op |-> "dashboard",
                   user |-> user_id,
                   total_income |-> total_income,
                   total_expenses |-> total_expenses,
                   balance |-> total_income - total_expenses,
                   transactions |->
                     format_transactions(Limit(ordered, DashboardLimit))]
  /\ UNCHANGED <<users, nextUserId, transactions, nextTxnId, req>>

Analytics(user_id) ==
  /\ resp = NoResp
  /\ LET total_income == TotalOfType(user_id, "income")
         total_expenses == TotalOfType(user_id, "expenses")
     IN resp' = [op |-> "analytics",
                 user |-> user_id,
                 total_income |-> total_income,
                 total_expenses |-> total_expenses,
                 balance |-> total_income - total_expenses,
                 avg_expense_hundredths |->
                   RoundedAverage(Amounts(RowsOfType(user_id, "expenses"))),
                 category_expenses |-> ExpensesByCategory(user_id)]
  /\ UNCHANGED <<users, nextUserId, transactions, nextTxnId, req>>

\* the call get_transaction_summary(user_id) of download_report
GetTransactionSummary(user_id) ==
  /\ resp = NoResp
  /\ LET summary == get_transaction_summary(user_id)
     IN resp' = [op |-> "get_transaction_summary",
                 user |-> user_id,
                 total_income |-> summary.total_income,
                 total_expenses |-> summary.total_expenses,
                 balance |-> summary.balance]
  /\ UNCHANGED <<users, nextUserId, transactions, nextTxnId, req>>

\* whether the feed computes percentages at all: total_income > 0
PercentagesGuardAlways(total_income) == TRUE

PercentagesGuard(total_income) == total_income > 0

\* total_spent / total_income, without the factor 100
PercentOfIncomeUnscaled(total_spent, total_income) ==
  [num |-> total_spent, den |-> total_income]

\* (total_spent / total_income) * 100, kept as the exact fraction num / den
PercentOfIncome(total_spent, total_income) ==
  [num |-> total_spent * 100, den |-> total_income]

\* categories_data is the GROUP BY result in the order SQLite yields it,
\* which SQL leaves open
DashboardData(user_id) ==
  /\ resp = NoResp
  /\ \E categories_data \in Orderings(DOMAIN ExpensesByCategory(user_id)) :
       LET rows == RowsOfUser(user_id)
           total_income == TotalOfType(user_id, "income")
           total_expenses == TotalOfType(user_id, "expenses")
           totals == ExpensesByCategory(user_id)
           categories == IF PercentagesGuard(total_income)
                         THEN categories_data ELSE <<>>
           sorted_dates == SortedTexts({rows[i].date : i \in DOMAIN rows})
           OnDate(date) == SelectSeq(rows, LAMBDA row : row.date = date)
       IN resp' = [op |-> "dashboard_data",
                   user |-> user_id,
                   total_income |-> total_income,
                   total_expenses |-> total_expenses,
                   categories |-> categories,
                   percentages |->
                     [i \in DOMAIN categories |->
                        PercentOfIncome(totals[categories[i]], total_income)],
                   dates |-> sorted_dates,
                   income |->
                     [i \in DOMAIN sorted_dates |->
                        SumSeq(Amounts(SelectSeq(OnDate(sorted_dates[i]),
                                 LAMBDA row : row.type = "income")))],
                   expenses |->
                     [i \in DOMAIN sorted_dates |->
                        SumSeq(Amounts(SelectSeq(OnDate(sorted_dates[i]),
                                 LAMBDA row : row.type # "income")))]]
  /\ UNCHANGED <<users, nextUserId, transactions, nextTxnId, req>>

\* get_category_summary applied to a user's formatted stored transactions,
\* as build_transaction_pdf applies it in download_report
GetCategorySummary(user_id) ==
  /\ resp = NoResp
  /\ \E data \in get_transaction_data(user_id) :
       LET txns == format_transactions(data)
       IN resp' = [op |-> "get_category_summary",
                   user |-> user_id,
                   transactions |-> txns,
                   summary |-> get_category_summary(txns)]
  /\ UNCHANGED <<users, nextUserId, transactions, nextTxnId, req>>

\* written: whether pdf.build writes the file or raises.  The route sends the
\* temporary file whatever build_transaction_pdf returned.
DownloadReport(user_id, written) ==
  /\ resp = NoResp
  /\ \E data \in get_transaction_data(user_id) :
       LET txns == format_transactions(data)
           summary == get_transaction_summary(user_id)
           built == build_transaction_pdf(txns, summary.total_income,
                      summary.total_expenses, summary.balance, written)
       IN resp' = [op |-> "download_report",
                   user |-> user_id,
                   transactions |-> txns,
                   built |-> built.returned,
                   sent |-> TRUE,
                   file |-> built.file]
  /\ UNCHANGED <<users, nextUserId, transactions, nextTxnId, req>>

(***************************************************************************)
(* The stored tables the read-only routes are applied to: two registered   *)
(* users and up to MaxRows rows, which POST /transactions can store in     *)
(* this order since it stores any submitted values.                        *)
(***************************************************************************)
StoredUsers == {[id |-> 1, username |-> "ann"], [id |-> 2, username |-> "bob"]}

StoredUserIds == {u.id : u \in StoredUsers}

WithIds(cells) ==
  [i \in DOMAIN cells |->
     [id |-> i, user_id |-> cells[i].user_id, category |-> cells[i].category,
      type |-> cells[i].type, amount |-> cells[i].amount,
      date |-> cells[i].date]]

StoredTables(Cells) ==
  {WithIds(cells) : cells \in UNION {[1..k -> Cells] : k \in 0..MaxRows}}

InitStored(Cells) ==
  /\ users = StoredUsers
  /\ nextUserId = Cardinality(StoredUsers) + 1
  /\ transactions \in StoredTables(Cells)
  /\ nextTxnId = Len(transactions) + 1
  /\ req = [s \in Slots |-> Idle]
  /\ resp = NoResp

\* SpecSummary: the three computations of the summary figures
SummaryCells ==
  [user_id : StoredUserIds, category : {"food"},
   type : FormTypes \ {None}, amount : {5, 10}, date : {Date1}]

InitSummary == InitStored(SummaryCells)

NextSummary ==
  \E user_id \in StoredUserIds :
    \/ GetTransactionSummary(user_id)
    \/ Dashboard(user_id)
    \/ Analytics(user_id)

SpecSummary == InitSummary /\ [][NextSummary]_vars

\* SpecFeed: the dashboard data feed
FeedCells ==
  [user_id : StoredUserIds, category : Categories,
   type : StoredTypes, amount : FormAmounts, date : {Date1}]

InitFeed == InitStored(FeedCells)

NextFeed == \E user_id \in StoredUserIds : DashboardData(user_id)

SpecFeed == InitFeed /\ [][NextFeed]_vars

\* SpecReport: the report pipeline
ReportCells ==
  [user_id : StoredUserIds, category : Categories,
   type : FormTypes \ {None}, amount : FormAmounts, date : {Date1}]

InitReport == InitStored(ReportCells)

NextReport ==
  \E user_id \in StoredUserIds :
    \/ GetCategorySummary(user_id)
    \/ \E written \in BOOLEAN : DownloadReport(user_id, written)

SpecReport == InitReport /\ [][NextReport]_vars

(***************************************************************************)
(* Properties of the read-only routes.                                     *)
(***************************************************************************)
RECURSIVE SumOfRows(_)
\* the sum of the amounts of a set of rows
SumOfRows(S) ==
  IF S = {} THEN 0
  ELSE LET row == CHOOSE r \in S : TRUE
       IN row.amount + SumOfRows(S \ {row})

\* the stored rows of a user with a given type
Owned(user_id, type) ==
  {row \in Range(transactions) : row.user_id = user_id /\ row.type = type}

SummaryAnswered ==
  resp.op \in {"get_transaction_summary", "dashboard", "analytics"}

\* C1: the summary figures of get_transaction_summary, the dashboard and the
\* analytics route satisfy total_income - total_expenses = balance, with
\* total_income the sum of the user's 'income' rows and total_expenses the
\* sum of the user's 'expenses' rows; a user without rows gets (0, 0, 0).
C1_SummaryBalances ==
  SummaryAnswered =>
    /\ resp.total_income = SumOfRows(Owned(resp.user, "income"))
    /\ resp.total_expenses = SumOfRows(Owned(resp.user, "expenses"))
    /\ resp.total_income - resp.total_expenses = resp.balance
    /\ (\A row \in Range(transactions) : row.user_id # resp.user) =>
         /\ resp.total_income = 0
         /\ resp.total_expenses = 0
         /\ resp.balance = 0

\* C1, witness: a summary of income and expenses of a user, computed while
\* another user has rows too
C1_Witness ==
  /\ resp.op = "get_transaction_summary"
  /\ resp.total_income = 5
  /\ resp.total_expenses = 10
  /\ resp.balance = -5
  /\ \E row \in Range(transactions) : row.user_id # resp.user

FeedAnswered == resp.op = "dashboard_data"

PercentNums == [i \in DOMAIN resp.percentages |-> resp.percentages[i].num]

\* C9 (as stated): the category percentages of the feed sum to at most 100
C9_PercentagesAtMost100 ==
  (FeedAnswered /\ resp.percentages # <<>>) =>
    SumSeq(PercentNums) <= 100 * resp.total_income

\* C9 (as amended): when total_income > 0 the category percentages, as exact
\* ratios, sum to 100 * total_expenses / total_income, so they sum to at most
\* 100 if and only if total_expenses <= total_income; when total_income <= 0
\* there are no percentages.
C9_PercentagesSumToExpenseShare ==
  FeedAnswered =>
    /\ resp.total_income <= 0 => resp.percentages = <<>>
    /\ resp.total_income > 0 =>
         /\ \A i \in DOMAIN resp.percentages :
              resp.percentages[i].den = resp.total_income
         /\ SumSeq(PercentNums) = 100 * resp.total_expenses
         /\ SumSeq(PercentNums) <= 100 * resp.total_income
              <=> resp.total_expenses <= resp.total_income

\* C9, witness: a feed whose percentages sum to more than 100
C9_Witness ==
  /\ FeedAnswered
  /\ resp.total_income > 0
  /\ resp.total_expenses > resp.total_income
  /\ SumSeq(PercentNums) > 100 * resp.total_income

\* C10: with total_income > 0 the feed holds one category/percentage pair per
\* distinct category of the user's 'expenses' rows, the percentage being
\* category_total / total_income * 100; with total_income = 0 both sequences
\* are empty, whatever expense rows exist.
C10_PercentagesPerCategory ==
  FeedAnswered =>
    /\ Len(resp.categories) = Len(resp.percentages)
    /\ resp.total_income > 0 =>
         /\ Range(resp.categories) =
              {row.category : row \in Owned(resp.user, "expenses")}
         /\ \A i, j \in DOMAIN resp.categories :
              resp.categories[i] = resp.categories[j] => i = j
         /\ \A i \in DOMAIN resp.categories :
              LET total == SumOfRows({row \in Owned(resp.user, "expenses") :
                                        row.category = resp.categories[i]})
              IN /\ resp.percentages[i].num = total * 100
                 /\ resp.percentages[i].den = resp.total_income
    /\ resp.total_income = 0 =>
         /\ resp.categories = <<>>
         /\ resp.percentages = <<>>

\* C10, witness: no income but expense rows, and an empty answer
C10_Witness ==
  /\ FeedAnswered
  /\ resp.total_income = 0
  /\ Owned(resp.user, "expenses") # {}
  /\ Owned(resp.user, "income") = {}
  /\ resp.categories = <<>>

ReportAnswered == resp.op = "download_report"

\* the transactions of a list that are expenses as the application stores them
StoredExpenses(txns) == {i \in DOMAIN txns : txns[i].type = "expenses"}

\* C3 (as stated): the keys of get_category_summary are the distinct
\* categories of the 'expenses' transactions of its input and each value is
\* the sum of that category's expense amounts
C3_SummaryOfStoredExpenses ==
  resp.op = "get_category_summary" =>
    LET txns == resp.transactions
        Total(c) == SumSeq([i \in 1..Len(txns) |->
                      IF i \in StoredExpenses(txns) /\ txns[i].category = c
                      THEN txns[i].amount ELSE 0])
    IN /\ {item.category : item \in Range(resp.summary)} =
            {txns[i].category : i \in StoredExpenses(txns)}
       /\ \A item \in Range(resp.summary) : item.amount = Total(item.category)

Position(elements, element) ==
  IF \E i \in DOMAIN elements : elements[i] = element
  THEN CHOOSE i \in DOMAIN elements : elements[i] = element
  ELSE 0

\* C4 (as stated): a built report holds the breakdown section if and only if
\* its transactions include an expense, the notice if and only if it has no
\* transactions, and always the summary and the footer, in the order header,
\* summary, breakdown, transactions, footer
C4_ReportSections ==
  (ReportAnswered /\ resp.built) =>
    LET header == Position(resp.file, Paragraph("Financial Report - today"))
        summary == Position(resp.file, Paragraph("Financial Summary"))
        breakdown ==
          Position(resp.file, Paragraph("Expense Breakdown by Category"))
        details == Position(resp.file, Paragraph("Transaction Details"))
        notice == Position(resp.file, Paragraph("No transactions available."))
        footer == Position(resp.file,
                    Paragraph("Generated by BudgetBuddy Financial Tracker"))
    IN /\ breakdown > 0 <=> StoredExpenses(resp.transactions) # {}
       /\ notice > 0 <=> resp.transactions = <<>>
       /\ 0 < header /\ header < summary
       /\ summary < details /\ details < footer
       /\ breakdown > 0 => summary < breakdown /\ breakdown < details
       /\ notice > 0 => details < notice /\ notice < footer

\* C5 (as stated): the report is sent only when build_transaction_pdf
\* returned True
C5_SentOnlyIfBuilt == ReportAnswered => (resp.sent => resp.built)

(***************************************************************************)
(* SpecTrend: the trend series of the dashboard data feed, over rows of    *)
(* two dates and of every type a submitted form can store.                 *)
(***************************************************************************)
TrendAmounts == {20, 40, 100}

TrendCells ==
  [user_id : StoredUserIds, category : {"food"},
   type : FormTypes \ {None}, amount : TrendAmounts, date : {Date1, Date2}]

InitTrend == InitStored(TrendCells)

NextTrend == \E user_id \in StoredUserIds : DashboardData(user_id)

SpecTrend == InitTrend /\ [][NextTrend]_vars

\* the stored rows of a user
OwnedRows(user_id) == {row \in Range(transactions) : row.user_id = user_id}

\* C11 (as stated): the feed's dates are the distinct dates of the user's
\* rows in strictly ascending order, its income and expenses sequences have
\* the length of dates, income[i] is the sum of the 'income' rows of dates[i]
\* and expenses[i] the sum of the 'expenses' rows of dates[i], 0 when the
\* date has none
C11_TrendSeries ==
  FeedAnswered =>
    /\ Range(resp.dates) = {row.date : row \in OwnedRows(resp.user)}
    /\ \A i, j \in DOMAIN resp.dates :
         i < j => TextLess(resp.dates[i], resp.dates[j])
    /\ Len(resp.income) = Len(resp.dates)
    /\ Len(resp.expenses) = Len(resp.dates)
    /\ \A i \in DOMAIN resp.dates :
         /\ resp.income[i] =
              SumOfRows({row \in Owned(resp.user, "income") :
                           row.date = resp.dates[i]})
         /\ resp.expenses[i] =
              SumOfRows({row \in Owned(resp.user, "expenses") :
                           row.date = resp.dates[i]})

\* C11: the part of the series that does not depend on the rows' types, and
\* the sums over the two stored types when the user has rows of no other type
C11_TrendSeriesOfStoredTypes ==
  FeedAnswered =>
    /\ Range(resp.dates) = {row.date : row \in OwnedRows(resp.user)}
    /\ \A i, j \in DOMAIN resp.dates :
         i < j => TextLess(resp.dates[i], resp.dates[j])
    /\ Len(resp.income) = Len(resp.dates)
    /\ Len(resp.expenses) = Len(resp.dates)
    /\ (\A row \in OwnedRows(resp.user) : row.type \in StoredTypes) =>
         \A i \in DOMAIN resp.dates :
           /\ resp.income[i] =
                SumOfRows({row \in Owned(resp.user, "income") :
                             row.date = resp.dates[i]})
           /\ resp.expenses[i] =
                SumOfRows({row \in Owned(resp.user, "expenses") :
                             row.date = resp.dates[i]})

\* C11: the example of the claim, the rows stored in the order given
C11_Example ==
  /\ FeedAnswered
  /\ [i \in DOMAIN transactions |->
        <<transactions[i].type, transactions[i].amount, transactions[i].date>>]
       = << <<"income", 100, Date1>>, <<"expenses", 40, Date1>>,
            <<"expenses", 20, Date2>> >>
  /\ \A row \in Range(transactions) : row.user_id = resp.user
  /\ resp.dates = <<Date1, Date2>>
  /\ resp.income = <<100, 0>>
  /\ resp.expenses = <<40, 20>>

\* C19 (as stated): the per-date income of the feed sums to its total_income
\* and the per-date expenses to its total_expenses, whatever the types of the
\* stored rows
C19_TrendSumsToTotals ==
  FeedAnswered =>
    /\ SumSeq(resp.income) = resp.total_income
    /\ SumSeq(resp.expenses) = resp.total_expenses

(***************************************************************************)
(* SpecCategory: get_category_summary over lists of one user's rows of     *)
(* three categories, with the type value the function counts and one it    *)
(* does not.                                                               *)
(***************************************************************************)
CategoryCells ==
  [user_id : {1}, category : Categories \cup {"fun"},
   type : {SummaryExpenseType, "income"}, amount : {5, 10}, date : {Date1}]

InitCategory == InitStored(CategoryCells)

NextCategory == \E user_id \in StoredUserIds : GetCategorySummary(user_id)

SpecCategory == InitCategory /\ [][NextCategory]_vars

CategorySummarised == resp.op = "get_category_summary"

\* the position of the first transaction of a category in a list, 0 if none
FirstOfCategory(txns, category) ==
  LET at == {i \in DOMAIN txns : txns[i].category = category}
  IN IF at = {} THEN 0 ELSE CHOOSE i \in at : \A j \in at : i <= j

\* the position of the first transaction of a category that the summary
\* counts, 0 if none
FirstCounted(txns, category) ==
  LET at == {i \in DOMAIN txns : /\ txns[i].category = category
                                 /\ txns[i].type = SummaryExpenseType}
  IN IF at = {} THEN 0 ELSE CHOOSE i \in at : \A j \in at : i <= j

\* C12 (as stated): the items of get_category_summary are in descending
\* order of amount, and items of equal amount are in the order in which
\* their categories first occur in the input list
C12_DescendingThenFirstInList ==
  CategorySummarised =>
    \A i, j \in DOMAIN resp.summary :
      i < j =>
        \/ resp.summary[i].amount > resp.summary[j].amount
        \/ /\ resp.summary[i].amount = resp.summary[j].amount
           /\ FirstOfCategory(resp.transactions, resp.summary[i].category)
                < FirstOfCategory(resp.transactions, resp.summary[j].category)

\* C12 (as amended): the items of get_category_summary are in descending
\* order of amount, and items of equal amount are in the order in which
\* their categories first occur among the transactions the summary counts
C12_DescendingThenFirstCounted ==
  CategorySummarised =>
    \A i, j \in DOMAIN resp.summary :
      i < j =>
        \/ resp.summary[i].amount > resp.summary[j].amount
        \/ /\ resp.summary[i].amount = resp.summary[j].amount
           /\ FirstCounted(resp.transactions, resp.summary[i].category)
                < FirstCounted(resp.transactions, resp.summary[j].category)

\* C12, witness: three categories, the one of the largest amount moved to
\* the front and the two of equal amount in the order of their first counted
\* transactions
C12_Witness ==
  /\ CategorySummarised
  /\ Len(resp.summary) = 3
  /\ resp.summary[1].amount > resp.summary[2].amount
  /\ resp.summary[2].amount = resp.summary[3].amount
  /\ FirstCounted(resp.transactions, resp.summary[1].category)
       > FirstCounted(resp.transactions, resp.summary[3].category)
  /\ FirstCounted(resp.transactions, resp.summary[2].category)
       < FirstCounted(resp.transactions, resp.summary[3].category)

(***************************************************************************)
(* SpecFormat: format_transactions as GET /transactions applies it, over   *)
(* rows whose dates carry a suffix after a space, after a tab, after       *)
(* both, or none.                                                          *)
(***************************************************************************)
\* the rows fetched, as the caller holds them once format_transactions has
\* returned: the function works on dict(txn) copies and assigns to none of
\* the caller's rows
FetchedAfterFormatInPlace(txns) == format_transactions(txns)

FetchedAfterFormat(txns) == txns

\* GET /transactions
TransactionsList(user_id) ==
  /\ resp = NoResp
  /\ \E fetched \in OrderByDateDesc(RowsOfUser(user_id)) :
       resp' = [op |-> "transactions",
                user |-> user_id,
                fetched |-> FetchedAfterFormat(fetched),
                transactions |-> format_transactions(fetched)]
  /\ UNCHANGED <<users, nextUserId, transactions, nextTxnId, req>>

Time == <<"1", "0", ":", "0", "0">>

FormatDates ==
  {Date1,
   Date1 \o <<" ">> \o Time,
   Date1 \o <<"\t">> \o Time,
   <<"2", "0", "2", "4", "\t", "0", "1", " ">> \o Time,
   <<" ">> \o Date1 \o <<" ">> \o Time}

FormatCells ==
  [user_id : StoredUserIds, category : {"food"}, type : {"income"},
   amount : {5}, date : FormatDates]

InitFormat == InitStored(FormatCells)

NextFormat == \E user_id \in StoredUserIds : TransactionsList(user_id)

SpecFormat == InitFormat /\ [][NextFormat]_vars

TransactionsListed == resp.op = "transactions"

\* C13: format_transactions applied to its own result returns that result,
\* the same records in the same order
C13_FormatIdempotent ==
  TransactionsListed =>
    format_transactions(resp.transactions) = resp.transactions

\* C13, witness: a list of three formatted transactions, two of them cut
C13_Witness ==
  /\ TransactionsListed
  /\ Len(resp.transactions) = 3
  /\ Cardinality({i \in DOMAIN resp.transactions :
                    resp.transactions[i].date # resp.fetched[i].date}) = 2
  /\ format_transactions(resp.transactions) = resp.transactions

\* date is the prefix of text that ends before the first character of text
\* that is in stops, the whole of text if there is none
PrefixBeforeFirst(date, text, stops) ==
  /\ Len(date) <= Len(text)
  /\ date = SubSeq(text, 1, Len(date))
  /\ \A i \in DOMAIN date : date[i] \notin stops
  /\ Len(date) < Len(text) => text[Len(date) + 1] \in stops

\* format_transactions returned a list of the length and order of the rows
\* fetched, each record equal to its row but for date, and left the rows
\* fetched as they are stored
FormattedInOrder ==
  /\ Len(resp.transactions) = Len(resp.fetched)
  /\ Range(resp.fetched) = OwnedRows(resp.user)
  /\ \A i \in DOMAIN resp.fetched :
       [resp.transactions[i] EXCEPT !.date = resp.fetched[i].date]
         = resp.fetched[i]

\* C14 (as stated): format_transactions returns a list of the same length
\* and order, each record equal to the input record except that date is the
\* prefix of the input date before its first whitespace character, and
\* leaves the input records unmodified
C14_DateCutAtWhitespace ==
  TransactionsListed =>
    /\ FormattedInOrder
    /\ \A i \in DOMAIN resp.fetched :
         PrefixBeforeFirst(resp.transactions[i].date, resp.fetched[i].date,
                           Whitespace)

\* C14 (as amended): the same, date being the prefix of the input date
\* before its first space character
C14_DateCutAtSpace ==
  TransactionsListed =>
    /\ FormattedInOrder
    /\ \A i \in DOMAIN resp.fetched :
         PrefixBeforeFirst(resp.transactions[i].date, resp.fetched[i].date,
                           {" "})

\* C14, witness: a date with a tab before its first space, cut at the space
C14_Witness ==
  /\ TransactionsListed
  /\ \E i \in DOMAIN resp.fetched :
       /\ resp.fetched[i].date =
            <<"2", "0", "2", "4", "\t", "0", "1", " ">> \o Time
       /\ resp.transactions[i].date = <<"2", "0", "2", "4", "\t", "0", "1">>

(***************************************************************************)
(* Spec: the routes that change the tables, as the server's threads run    *)
(* them.  A request of a logged-in client first loads its user from the    *)
(* session's user id (flask-login's user_loader, User.get) and then runs   *)
(* the route's body; between the two, other threads run.  The session's    *)
(* user id is that of any user registered so far: a client that logged in  *)
(* keeps its cookie when the account is deleted from another browser.      *)
(***************************************************************************)
UserIds == {u.id : u \in users}

InFlight(op) == {s \in Slots : req[s].op = op}

\* the password fields of the registration form
Passwords == {"", "short", "longenough"}

\* the minimum password length register accepts
MinPasswordLen == 8

\* the checks of register before it touches the database
RegisterFormValid(username, password, confirmation) ==
  /\ username # ""
  /\ password # ""
  /\ password = confirmation
  /\ ~(Len(password) < MinPasswordLen)

\* POST /register up to its SELECT: an invalid form or a taken username ends
\* the request; otherwise the INSERT is still to come
RegisterCheck(s, username, password, confirmation) ==
  /\ req[s] = Idle
  /\ nextUserId + Cardinality(InFlight("register")) <= MaxUsers
  /\ IF /\ RegisterFormValid(username, password, confirmation)
        /\ ~\E u \in users : u.username = username
     THEN req' = [req EXCEPT ![s] = [op |-> "register", username |-> username]]
     ELSE UNCHANGED req
  /\ UNCHANGED <<users, nextUserId, transactions, nextTxnId, resp>>

\* a users table without the constraint
UniqueNotEnforced(username) == FALSE

\* username TEXT UNIQUE NOT NULL: whether storing one more row with this
\* username violates the constraint
UniqueViolated(username) == \E u \in users : u.username = username

\* the INSERT of register: the UNIQUE constraint on username makes it fail
\* (IntegrityError, the request ends in an error) when the name is taken
RegisterInsert(s) ==
  /\ req[s].op = "register"
  /\ IF UniqueViolated(req[s].username)
     THEN UNCHANGED <<users, nextUserId>>
     ELSE /\ users' = users \cup {[id |-> nextUserId,
                                   username |-> req[s].username]}
          /\ nextUserId' = nextUserId + 1
  /\ req' = [req EXCEPT ![s] = Idle]
  /\ UNCHANGED <<transactions, nextTxnId, resp>>

\* @login_required: the request goes on as user_id if User.get finds the row,
\* and is redirected to the login page otherwise
LoadUser(s, user_id, request) ==
  /\ req[s] = Idle
  /\ user_id \in 1..(nextUserId - 1)
  /\ IF user_id \in UserIds
     THEN req' = [req EXCEPT ![s] = request]
     ELSE UNCHANGED req
  /\ UNCHANGED <<users, nextUserId, transactions, nextTxnId, resp>>

\* what a client submits to POST /transactions: a valid form, a negative
\* amount, a type the application does not know, and a form without type
TransactionForms ==
  {[category |-> "food", type |-> "income", amount |-> 5, date |-> Date1],
   [category |-> "food", type |-> "expenses", amount |-> -5, date |-> Date1],
   [category |-> "food", type |-> "expense", amount |-> 5, date |-> Date1],
   [category |-> "food", type |-> None, amount |-> 5, date |-> Date1]}

\* POST /transactions, a logged-in client's request arriving
TransactionsLoadUser(s, user_id) ==
  /\ nextTxnId + Cardinality(InFlight("transactions")) <= MaxTxns
  /\ LoadUser(s, user_id, [op |-> "transactions", user |-> user_id])

\* the NOT NULL constraints of the transactions table
NotNull(form) ==
  /\ form.category # None
  /\ form.type # None
  /\ form.date # None

\* the INSERT of POST /transactions: the submitted values are stored as they
\* are; a missing value violates NOT NULL and nothing is stored.  The foreign
\* key of user_id is declared but SQLite does not enforce it unless
\* PRAGMA foreign_keys is set, which the application never does.
TransactionsInsert(s, form) ==
  /\ req[s].op = "transactions"
  /\ IF NotNull(form)
     THEN /\ transactions' = Append(transactions,
                               [id |-> nextTxnId,
                                user_id |-> req[s].user,
                                category |-> form.category,
                                type |-> form.type,
                                amount |-> form.amount,
                                date |-> form.date])
          /\ nextTxnId' = nextTxnId + 1
     ELSE UNCHANGED <<transactions, nextTxnId>>
  /\ req' = [req EXCEPT ![s] = Idle]
  /\ UNCHANGED <<users, nextUserId, resp>>

\* POST /delete_transaction/<txn_id>, a logged-in client's request arriving
DeleteTransactionLoadUser(s, user_id, txn_id) ==
  /\ txn_id \in 1..MaxTxns
  /\ LoadUser(s, user_id, [op |-> "delete_transaction", user |-> user_id,
                           txn_id |-> txn_id])

\* the check of delete_transaction on the row it selected
MayDeleteAny(row, user_id) == TRUE

MayDelete(row, user_id) == row.user_id = user_id

\* the body of delete_transaction: SELECT the row's user_id, return when there
\* is no row or it is another user's, DELETE the row otherwise
DeleteTransaction(s) ==
  /\ req[s].op = "delete_transaction"
  /\ LET found == SelectSeq(transactions,
                            LAMBDA row : row.id = req[s].txn_id)
     IN IF found # <<>> /\ MayDelete(found[1], req[s].user)
        THEN transactions' = SelectSeq(transactions,
                               LAMBDA row : row.id # req[s].txn_id)
        ELSE UNCHANGED transactions
  /\ req' = [req EXCEPT ![s] = Idle]
  /\ UNCHANGED <<users, nextUserId, nextTxnId, resp>>

\* POST /delete_account, a logged-in client's request arriving
DeleteAccountLoadUser(s, user_id) ==
  LoadUser(s, user_id, [op |-> "delete_account", user |-> user_id])

\* the body of delete_account: both DELETEs in one transaction
DeleteAccount(s) ==
  /\ req[s].op = "delete_account"
  /\ transactions' = SelectSeq(transactions,
                               LAMBDA row : row.user_id # req[s].user)
  /\ users' = {u \in users : u.id # req[s].user}
  /\ req' = [req EXCEPT ![s] = Idle]
  /\ UNCHANGED <<nextUserId, nextTxnId, resp>>

Next ==
  \E s \in Slots :
    \/ \E username \in Usernames \cup {""}, password, confirmation \in Passwords :
         RegisterCheck(s, username, password, confirmation)
    \/ RegisterInsert(s)
    \/ \E user_id \in 1..MaxUsers : TransactionsLoadUser(s, user_id)
    \/ \E form \in TransactionForms : TransactionsInsert(s, form)
    \/ \E user_id \in 1..MaxUsers, txn_id \in 1..MaxTxns :
         DeleteTransactionLoadUser(s, user_id, txn_id)
    \/ DeleteTransaction(s)
    \/ \E user_id \in 1..MaxUsers : DeleteAccountLoadUser(s, user_id)
    \/ DeleteAccount(s)

Spec == Init /\ [][Next]_vars

(***************************************************************************)
(* Properties of the routes that change the tables.                        *)
(***************************************************************************)
\* C6: delete_transaction(txn_id) of user U removes the row with that id if
\* and only if it exists and is U's, and no other row; when there is no such
\* row or it is another user's, the transactions table is left unchanged.
C6_DeleteOnlyOwn ==
  [][\A s \in Slots :
       (req[s].op = "delete_transaction" /\ req'[s] = Idle) =>
         LET mine == {row \in Range(transactions) :
                        row.id = req[s].txn_id /\ row.user_id = req[s].user}
         IN /\ Range(transactions') = Range(transactions) \ mine
            /\ Len(transactions') = Len(transactions) - Cardinality(mine)
            /\ mine = {} => transactions' = transactions
            /\ users' = users]_vars

\* C6, witness: the only user ever registered has deleted the only
\* transaction ever stored
C6_Witness ==
  /\ nextUserId = 2
  /\ Cardinality(users) = 1
  /\ nextTxnId = 2
  /\ transactions = <<>>

\* C7 (as stated): every stored transaction's user_id is the id of a stored
\* user
C7_TransactionsHaveOwners ==
  \A i \in DOMAIN transactions : transactions[i].user_id \in UserIds

\* C8 (as stated): every stored transaction has amount >= 0 and a type in
\* {income, expenses}
C8_StoredRowsValid ==
  \A i \in DOMAIN transactions :
    /\ transactions[i].amount >= 0
    /\ transactions[i].type \in StoredTypes

\* C18: under every interleaving of the check and insert steps of concurrent
\* register requests no two stored users share a username; a register request
\* whose form is invalid or whose username is taken, at its check or at its
\* insert, leaves the users table unchanged, and a request that changes it
\* adds one user whose username no stored user has.
C18_UsernamesStayUnique ==
  [][/\ \A u, v \in users' : u.username = v.username => u = v
     /\ \A s \in Slots :
          /\ req'[s].op = "register" => req'[s].username \in Usernames
          /\ (req[s] = Idle /\ req'[s].op = "register") => users' = users
          /\ (/\ req[s].op = "register"
              /\ req'[s] = Idle
              /\ \E u \in users : u.username = req[s].username) =>
               users' = users
          /\ (/\ req[s].op = "register"
              /\ req'[s] = Idle
              /\ ~\E u \in users : u.username = req[s].username) =>
               /\ Cardinality(users') = Cardinality(users) + 1
               /\ \E u \in users' \ users : u.username = req[s].username]_vars

\* C18, witness: two requests passed the check with the same username, one
\* has stored its user and the other has its insert still to come
C18_Witness ==
  /\ Cardinality(users) = 1
  /\ \E s \in Slots :
       /\ req[s].op = "register"
       /\ \E u \in users : u.username = req[s].username
       /\ \A t \in Slots \ {s} : req[t] = Idle

(***************************************************************************)
(* SpecHandles: the connections to finance.db that the operations open     *)
(* and close, as two server threads run them.  An operation connects,      *)
(* runs its statements and leaves them at their end, at a return statement *)
(* among them, or because one of them raises (the database is locked or    *)
(* cannot be read).                                                        *)
(***************************************************************************)
\* "with get_db_connection() as conn:" - leaving the block commits or rolls
\* back; sqlite3's connection context manager does not close the connection
WithBlock ==
  {"login", "register", "dashboard", "dashboard_data", "transactions",
   "analytics", "profile", "get_last_month_expenses"}

\* conn = sqlite3.connect(...) with conn.close() as a later statement
CloseAtEnd ==
  {"User.get", "get_transaction_data", "get_transaction_summary",
   "change_password", "delete_account"}

\* try: conn = sqlite3.connect(...) ... finally: conn.close()
CloseInFinally == {"init_db", "delete_transaction"}

StorageOperations == WithBlock \cup CloseAtEnd \cup CloseInFinally

\* the operations with a return statement between connect and close
ReturnsInside == {"register", "delete_transaction"}

ExitPaths(operation) ==
  {"end", "raise"} \cup
    (IF operation \in ReturnsInside THEN {"return"} ELSE {})

\* whether leaving an operation's statements on a path runs conn.close()
Closes(operation, path) ==
  IF operation \in CloseInFinally THEN TRUE
  ELSE IF operation \in CloseAtEnd THEN path = "end"
  ELSE FALSE

\* sqlite3.connect
Connect(s, operation) ==
  /\ req[s] = Idle
  /\ req' = [req EXCEPT ![s] = [op |-> operation, open |-> 1]]
  /\ UNCHANGED <<users, nextUserId, transactions, nextTxnId, resp>>

\* the operation leaves its statements on a path and finishes
Finish(s, path) ==
  /\ req[s] # Idle
  /\ path \in ExitPaths(req[s].op)
  /\ resp' = [op |-> "finished",
              operation |-> req[s].op,
              path |-> path,
              open |-> IF Closes(req[s].op, path)
                       THEN req[s].open - 1 ELSE req[s].open]
  /\ req' = [req EXCEPT ![s] = Idle]
  /\ UNCHANGED <<users, nextUserId, transactions, nextTxnId>>

NextHandles ==
  \E s \in Slots :
    \/ \E operation \in StorageOperations : Connect(s, operation)
    \/ \E path \in {"end", "return", "raise"} : Finish(s, path)

SpecHandles == Init /\ [][NextHandles]_vars

\* C15 (as stated): an operation that has finished has closed every
\* connection it opened, on every path
C15_HandlesClosed == resp.op = "finished" => resp.open = 0

(***************************************************************************)
(* SpecAdvice: POST /analytics/generate_summary.  The route is not behind  *)
(* login_required, so its caller is a logged-in user or anonymous; the     *)
(* body is a JSON object or JSON null; the outbound call fails in          *)
(* transport, answers with an error status, or answers 200 with a JSON     *)
(* object that has no 'choices', an empty 'choices', or a message.         *)
(***************************************************************************)
\* current_user: <<id>> for a logged-in user, <<>> for the anonymous user
Anonymous == <<>>

Callers == {<<user_id>> : user_id \in StoredUserIds} \cup {Anonymous}

PayloadAmounts == {0, 5, 10}

\* request.get_json(): None for the JSON text null, a dict for an object
Bodies ==
  {[json |-> "null"]} \cup
    [json : {"object"},
     total_income : PayloadAmounts, total_expenses : PayloadAmounts,
     category_expenses : {<<>>, <<[category |-> "food", amount |-> 5]>>}]

CallOutcomes ==
  {"transport_error", "error_status", "no_choices", "empty_choices",
   "message"}

\* SELECT SUM(amount) ... AND strftime('%m', date) = ? with the month bound
\* as an integer: strftime yields TEXT, which SQLite never finds equal to an
\* INTEGER, so no row is selected, the sum is NULL and the function returns 0
get_last_month_expenses(user_id) == 0

Escapes(error) == [kind |-> "exception", error |-> error]

\* the try block: requests.post, raise_for_status, response.json() and the
\* subscripts ['choices'][0]['message']['content'], under
\* "except requests.exceptions.RequestException"
CallService(outcome) ==
  CASE outcome = "transport_error" ->
         [kind |-> "error", status |-> 500, error |-> "ConnectionError"]
    [] outcome = "error_status" ->
         [kind |-> "error", status |-> 500, error |-> "HTTPError"]
    [] outcome = "no_choices" -> Escapes("KeyError")
    [] outcome = "empty_choices" -> Escapes("IndexError")
    [] outcome = "message" ->
         [kind |-> "summary", status |-> 200, summary |-> "content"]

GenerateSummary(caller, body, outcome) ==
  /\ resp = NoResp
  /\ resp' =
       IF body.json = "null"
       THEN \* user_data.get on None
            [op |-> "generate_summary", caller |-> caller, called |-> FALSE,
             result |-> Escapes("AttributeError")]
       ELSE IF caller = Anonymous
       THEN \* current_user.id on flask-login's AnonymousUserMixin
            [op |-> "generate_summary", caller |-> caller, called |-> FALSE,
             result |-> Escapes("AttributeError")]
       ELSE [op |-> "generate_summary", caller |-> caller, called |-> TRUE,
             prompt |-> [total_income |-> body.total_income,
                         total_expenses |-> body.total_expenses,
                         last_month_expenses |->
                           get_last_month_expenses(caller[1]),
                         category_expenses |-> body.category_expenses],
             outcome |-> outcome,
             result |-> CallService(outcome)]
  /\ UNCHANGED <<users, nextUserId, transactions, nextTxnId, req>>

InitAdvice == InitStored({})

NextAdvice ==
  \E caller \in Callers, body \in Bodies, outcome \in CallOutcomes :
    GenerateSummary(caller, body, outcome)

SpecAdvice == InitAdvice /\ [][NextAdvice]_vars

\* C16 (as stated): whatever the outcome of the outbound call and whoever
\* the caller, generate_summary answers with the summary text or with an
\* error payload, and no exception leaves the handler
C16_NoExceptionEscapes ==
  resp.op = "generate_summary" => resp.result.kind \in {"summary", "error"}

\* C16: the part that holds - a logged-in caller with a JSON object gets the
\* error payload with status 500 when the call fails in transport or answers
\* with an error status, and the summary when the answer holds the message
C16_RequestErrorsCaught ==
  (resp.op = "generate_summary" /\ resp.called) =>
    /\ resp.outcome \in {"transport_error", "error_status"} =>
         resp.result.kind = "error" /\ resp.result.status = 500
    /\ resp.outcome = "message" => resp.result.kind = "summary"

====
